---- MODULE Spec2Model ----
(***************************************************************************)
(* Model of minidrone-js: the Enum class (src/unnamed/part_000) and the    *)
(* InvalidCommandError class (src/src/InvalidCommandError.js).             *)
(*                                                                         *)
(* JavaScript strings are sequences of one-character strings, JavaScript   *)
(* values are tagged records, and an object is its list of own properties  *)
(* (in creation order) together with its [[Extensible]] flag.  The keys    *)
(* given to an Enum are ordinary names and array indices; none of them is  *)
(* the name of a method of Enum (a key such as "keys" would shadow the     *)
(* method on the instance).  Numbers are integers and NaN.                 *)
(***************************************************************************)
EXTENDS Integers, Sequences, FiniteSets

VARIABLES __iota, issued, heap, calls, last

vars == <<__iota, issued, heap, calls, last>>

(***************************************************************************)
(* Bounds of the model.                                                    *)
(***************************************************************************)
MaxLen == 2
MaxEnums == 2
MaxIota == 4
MaxCalls == 3
MaxTarget == 256

(***************************************************************************)
(* JavaScript values.                                                      *)
(***************************************************************************)
V(t, n, s, b) == [t |-> t, n |-> n, s |-> s, b |-> b]
Undefined == V("undefined", 0, <<>>, FALSE)
NaN == V("NaN", 0, <<>>, FALSE)
Num(n) == V("number", n, <<>>, FALSE)
Str(s) == V("string", 0, s, FALSE)
Bool(b) == V("boolean", 0, <<>>, b)
Fn(id) == V("function", id, <<>>, FALSE)

\* typeof v
TypeOf(v) == IF v.t = "NaN" THEN "number" ELSE v.t

\* !v
Falsy(v) ==
  \/ v.t \in {"undefined", "NaN"}
  \/ v.t = "number" /\ v.n = 0
  \/ v.t = "string" /\ v.s = <<>>
  \/ v.t = "boolean" /\ ~v.b

\* a === b
StrictEq(a, b) == a = b /\ a.t # "NaN"

\* SameValueZero(a, b), the comparison of Array.prototype.includes
SameValueZero(a, b) == a = b

\* SameValue(a, b), the comparison of property redefinition
SameValue(a, b) == a = b

(***************************************************************************)
(* Strings and numbers.                                                    *)
(***************************************************************************)
HexDigits == <<"0", "1", "2", "3", "4", "5", "6", "7", "8", "9", "a", "b", "c", "d", "e", "f">>

DigitVal(c) == CHOOSE i \in 0..15 : HexDigits[i + 1] = c

IsDigit(c) == \E i \in 1..10 : HexDigits[i] = c

RECURSIVE NatToRadix(_, _)
NatToRadix(n, radix) ==
  IF n < radix THEN <<HexDigits[n + 1]>>
  ELSE NatToRadix(n \div radix, radix) \o <<HexDigits[(n % radix) + 1]>>

\* Number.prototype.toString(radix) of an integer or NaN
NumberToString(v, radix) ==
  IF v.t = "NaN" THEN <<"N", "a", "N">>
  ELSE IF v.n < 0 THEN <<"-">> \o NatToRadix(0 - v.n, radix)
  ELSE NatToRadix(v.n, radix)

RECURSIVE RadixToNat(_, _)
RadixToNat(s, radix) ==
  IF s = <<>> THEN 0
  ELSE RadixToNat(SubSeq(s, 1, Len(s) - 1), radix) * radix + DigitVal(s[Len(s)])

\* ToString(v), the conversion of string concatenation and template literals
ToStr(v) ==
  CASE v.t = "string" -> v.s
    [] v.t = "undefined" -> <<"u", "n", "d", "e", "f", "i", "n", "e", "d">>
    [] v.t = "boolean" -> IF v.b THEN <<"t", "r", "u", "e">> ELSE <<"f", "a", "l", "s", "e">>
    [] v.t = "function" -> <<"(", ")", " ", "=", ">", " ", "+", "+", "c", "o", "u", "n", "t">>
    [] OTHER -> NumberToString(v, 10)

RECURSIVE Join(_, _)
Join(strs, sep) ==
  IF strs = <<>> THEN <<>>
  ELSE IF Len(strs) = 1 THEN strs[1]
  ELSE strs[1] \o sep \o Join(Tail(strs), sep)

\* s is a canonical array index ("0", "2", "10", not "01"); the limit of
\* 2^32 - 2 is beyond the integers of the checker, every string of at most
\* nine digits is below it and longer strings do not occur
IsArrayIndex(s) ==
  /\ s # <<>>
  /\ \A i \in 1..Len(s) : IsDigit(s[i])
  /\ Len(s) = 1 \/ s[1] # "0"
  /\ Len(s) < 10

(***************************************************************************)
(* constantCase of the "case" package: Case.constant(s).                   *)
(***************************************************************************)
Lowers == <<"a", "b", "c", "d", "e", "f">>
Uppers == <<"A", "B", "C", "D", "E", "F">>

IsUpper(c) == \E i \in 1..Len(Uppers) : Uppers[i] = c

IsSep(c) == c \in {" ", "_", "-", "."}

ToUpper(c) ==
  IF \E i \in 1..Len(Lowers) : Lowers[i] = c
  THEN Uppers[CHOOSE i \in 1..Len(Lowers) : Lowers[i] = c]
  ELSE c

\* the longest prefix of s made of upper-case letters
RECURSIVE UpperRun(_)
UpperRun(s) ==
  IF s # <<>> /\ IsUpper(s[1]) THEN <<s[1]>> \o UpperRun(Tail(s)) ELSE <<>>

\* a string without separators is split at its lower-to-upper boundaries
RECURSIVE Relax(_)
Relax(s) ==
  IF Len(s) < 2 THEN s
  ELSE IF ~IsUpper(s[1]) /\ IsUpper(s[2])
  THEN LET run == UpperRun(Tail(s))
           k == Len(run)
       IN <<s[1], " ">>
            \o (IF k > 1 THEN SubSeq(run, 1, k - 1) \o <<" ">> ELSE <<>>)
            \o <<run[k]>>
            \o Relax(SubSeq(s, k + 2, Len(s)))
  ELSE <<s[1]>> \o Relax(Tail(s))

RECURSIVE DropSeps(_)
DropSeps(s) == IF s # <<>> /\ IsSep(s[1]) THEN DropSeps(Tail(s)) ELSE s

\* every run of separators becomes one "_", a trailing run is dropped
RECURSIVE Fill(_)
Fill(s) ==
  IF s = <<>> THEN <<>>
  ELSE IF IsSep(s[1])
  THEN LET rest == DropSeps(s)
       IN IF rest = <<>> THEN <<>> ELSE <<"_", rest[1]>> \o Fill(Tail(rest))
  ELSE <<s[1]>> \o Fill(Tail(s))

constantCase(s) ==
  LET prepped == IF \E i \in 1..Len(s) : IsSep(s[i]) THEN s ELSE Relax(s)
      filled == Fill(prepped)
  IN [i \in 1..Len(filled) |-> ToUpper(filled[i])]

(***************************************************************************)
(* Objects: own properties in creation order and the [[Extensible]] flag.  *)
(***************************************************************************)
EmptyObject == [props |-> <<>>, extensible |-> TRUE]

\* position of the own property named key, 0 when there is none
PropIndex(props, key) ==
  IF \E i \in 1..Len(props) : props[i].key = key
  THEN CHOOSE i \in 1..Len(props) : props[i].key = key
  ELSE 0

\* the array-index keys of ks in ascending numeric order
RECURSIVE SortIndexKeys(_)
SortIndexKeys(ks) ==
  IF ks = {} THEN <<>>
  ELSE LET m == CHOOSE k \in ks : \A o \in ks : RadixToNat(k, 10) <= RadixToNat(o, 10)
       IN <<m>> \o SortIndexKeys(ks \ {m})

\* Object.keys(obj): array-index keys ascending, then the others in creation order
ObjectKeys(obj) ==
  LET all == [i \in 1..Len(obj.props) |-> obj.props[i].key]
      enum(k) == obj.props[PropIndex(obj.props, k)].enumerable
      idx == {all[i] : i \in {j \in 1..Len(all) : IsArrayIndex(all[j]) /\ enum(all[j])}}
      isName(k) == ~IsArrayIndex(k) /\ enum(k)
  IN SortIndexKeys(idx) \o SelectSeq(all, isName)

\* a redefinition that replaces the existing property, as a plain assignment would
DefinePropertyOverwriting(obj, key, desc) ==
  LET i == PropIndex(obj.props, key)
      fresh == [key |-> key, enumerable |-> desc.enumerable, configurable |-> FALSE,
                writable |-> FALSE, kind |-> desc.kind, value |-> desc.value]
  IN IF i = 0
     THEN IF obj.extensible
          THEN [threw |-> FALSE, obj |-> [obj EXCEPT !.props = Append(@, fresh)]]
          ELSE [threw |-> TRUE, obj |-> obj]
     ELSE [threw |-> FALSE, obj |-> [obj EXCEPT !.props[i] = fresh]]

\* Object.defineProperty(obj, key, desc); absent attributes default to false
DefineProperty(obj, key, desc) ==
  LET i == PropIndex(obj.props, key)
      fresh == [key |-> key, enumerable |-> desc.enumerable, configurable |-> FALSE,
                writable |-> FALSE, kind |-> desc.kind, value |-> desc.value]
  IN IF i = 0
     THEN IF obj.extensible
          THEN [threw |-> FALSE, obj |-> [obj EXCEPT !.props = Append(@, fresh)]]
          ELSE [threw |-> TRUE, obj |-> obj]
     ELSE LET cur == obj.props[i]
          IN IF cur.configurable
             THEN [threw |-> FALSE,
                   obj |-> [obj EXCEPT !.props[i] =
                              [fresh EXCEPT !.configurable = TRUE,
                                            !.writable = (desc.kind = "data" /\ cur.kind = "data" /\ cur.writable)]]]
             ELSE IF /\ desc.enumerable = cur.enumerable
                     /\ desc.kind = cur.kind
                     /\ (cur.kind = "data" /\ cur.writable) \/ SameValue(desc.value, cur.value)
                  THEN [threw |-> FALSE, obj |-> [obj EXCEPT !.props[i].value = desc.value]]
                  ELSE [threw |-> TRUE, obj |-> obj]

\* the object left as it is: Object.freeze forgotten
FreezeForgotten(obj) == obj

\* Object.freeze(obj)
Freeze(obj) ==
  [props |-> [i \in 1..Len(obj.props) |->
                [obj.props[i] EXCEPT !.configurable = FALSE, !.writable = FALSE]],
   extensible |-> FALSE]

\* obj[key] = v: the outcome of an assignment by client code
SetProperty(obj, key, v) ==
  LET i == PropIndex(obj.props, key)
  IN IF i = 0
     THEN IF obj.extensible
          THEN [ok |-> TRUE,
                obj |-> [obj EXCEPT !.props = Append(@,
                           [key |-> key, enumerable |-> TRUE, configurable |-> TRUE,
                            writable |-> TRUE, kind |-> "data", value |-> v])]]
          ELSE [ok |-> FALSE, obj |-> obj]
     ELSE IF obj.props[i].kind = "data" /\ obj.props[i].writable
          THEN [ok |-> TRUE, obj |-> [obj EXCEPT !.props[i].value = v]]
          ELSE [ok |-> FALSE, obj |-> obj]

\* delete obj[key]: the outcome of a deletion by client code
DeleteProperty(obj, key) ==
  LET i == PropIndex(obj.props, key)
      keep(p) == p.key # key
  IN IF i = 0 THEN [ok |-> TRUE, obj |-> obj]
     ELSE IF obj.props[i].configurable
          THEN [ok |-> TRUE, obj |-> [obj EXCEPT !.props = SelectSeq(@, keep)]]
          ELSE [ok |-> FALSE, obj |-> obj]

(***************************************************************************)
(* Enum: the constructor.                                                  *)
(***************************************************************************)
\* the getter without its increment: "return Enum.__iota"
_iotaNoIncrement(io) ==
  LET cur == IF Falsy(io) THEN Num(0) ELSE io
  IN [ret |-> cur, next |-> cur]

\* static get _iota(): io is Enum.__iota before the read
_iota(io) ==
  LET cur == IF Falsy(io) THEN Num(0) ELSE io
  IN [ret |-> cur, next |-> Num(cur.n + 1)]

DataDesc(v) == [enumerable |-> TRUE, kind |-> "data", value |-> v]
GetterDesc(f) == [enumerable |-> TRUE, kind |-> "accessor", value |-> f]

\* auto mode storing the normalized key as the value: "value: key"
RECURSIVE AutoLoopKeyAsValue(_, _)
AutoLoopKeyAsValue(obj, rows) ==
  IF rows = <<>> THEN [threw |-> FALSE, obj |-> obj]
  ELSE LET key == constantCase(rows[1])
           d == DefineProperty(obj, key, DataDesc(Str(key)))
       IN IF d.threw THEN d ELSE AutoLoopKeyAsValue(d.obj, Tail(rows))

\* for (const row of enums) in auto mode
RECURSIVE AutoLoop(_, _)
AutoLoop(obj, rows) ==
  IF rows = <<>> THEN [threw |-> FALSE, obj |-> obj]
  ELSE LET d == DefineProperty(obj, constantCase(rows[1]), DataDesc(Str(rows[1])))
       IN IF d.threw THEN d ELSE AutoLoop(d.obj, Tail(rows))

\* for (const key of enums) in iota mode
RECURSIVE IotaLoop(_, _, _, _)
IotaLoop(obj, keys, io, iss) ==
  IF keys = <<>> THEN [threw |-> FALSE, obj |-> obj, iota |-> io, issued |-> iss]
  ELSE LET r == _iota(io)
           d == DefineProperty(obj, keys[1], DataDesc(r.ret))
       IN IF d.threw
          THEN [threw |-> TRUE, obj |-> d.obj, iota |-> r.next, issued |-> Append(iss, r.ret.n)]
          ELSE IotaLoop(d.obj, Tail(keys), r.next, Append(iss, r.ret.n))

\* a mapping given as enums, seen as an object: its entries are its own
\* enumerable properties, in the order they were written
AsObject(enums) ==
  [props |-> [k \in 1..Len(enums.items) |->
                [key |-> enums.items[k].key, enumerable |-> TRUE, configurable |-> TRUE,
                 writable |-> TRUE, kind |-> "data", value |-> enums.items[k].value]],
   extensible |-> TRUE]

\* enums[key]
EnumsAt(enums, key) ==
  LET obj == AsObject(enums)
  IN obj.props[PropIndex(obj.props, key)].value

\* mapping mode without the typeof test: a function is stored as a value
RECURSIVE MappingLoopNoGetter(_, _, _)
MappingLoopNoGetter(obj, enums, ks) ==
  IF ks = <<>> THEN [threw |-> FALSE, obj |-> obj]
  ELSE LET d == DefineProperty(obj, ks[1], DataDesc(EnumsAt(enums, ks[1])))
       IN IF d.threw THEN d ELSE MappingLoopNoGetter(d.obj, enums, Tail(ks))

\* for (const key of Object.keys(enums)) in mapping mode; ks are the keys left
RECURSIVE MappingLoop(_, _, _)
MappingLoop(obj, enums, ks) ==
  IF ks = <<>> THEN [threw |-> FALSE, obj |-> obj]
  ELSE LET key == ks[1]
           init == IF TypeOf(EnumsAt(enums, key)) = "function"
                   THEN GetterDesc(EnumsAt(enums, key))
                   ELSE DataDesc(EnumsAt(enums, key))
           d == DefineProperty(obj, key, init)
       IN IF d.threw THEN d ELSE MappingLoop(d.obj, enums, Tail(ks))

\* the constructor without its test of "auto && !isArray"
ConstructorNoTypeCheck(enums, auto, io, iss) ==
  IF enums.isArray /\ auto
  THEN LET r == AutoLoop(EmptyObject, enums.items)
       IN [threw |-> r.threw, obj |-> IF r.threw THEN r.obj ELSE Freeze(r.obj),
           iota |-> io, issued |-> iss]
  ELSE IF enums.isArray
  THEN LET r == IotaLoop(EmptyObject, enums.items, io, iss)
       IN [r EXCEPT !.obj = IF r.threw THEN r.obj ELSE Freeze(r.obj)]
  ELSE LET r == MappingLoop(EmptyObject, enums, ObjectKeys(AsObject(enums)))
       IN [threw |-> r.threw, obj |-> IF r.threw THEN r.obj ELSE Freeze(r.obj),
           iota |-> io, issued |-> iss]

\* new Enum(enums, auto) with Enum.__iota = io: the outcome of the constructor
Constructor(enums, auto, io, iss) ==
  IF auto /\ ~enums.isArray
  THEN [threw |-> TRUE, obj |-> EmptyObject, iota |-> io, issued |-> iss]
  ELSE IF enums.isArray /\ auto
  THEN LET r == AutoLoop(EmptyObject, enums.items)
       IN [threw |-> r.threw, obj |-> IF r.threw THEN r.obj ELSE Freeze(r.obj),
           iota |-> io, issued |-> iss]
  ELSE IF enums.isArray
  THEN LET r == IotaLoop(EmptyObject, enums.items, io, iss)
       IN [r EXCEPT !.obj = IF r.threw THEN r.obj ELSE Freeze(r.obj)]
  ELSE LET r == MappingLoop(EmptyObject, enums, ObjectKeys(AsObject(enums)))
       IN [threw |-> r.threw, obj |-> IF r.threw THEN r.obj ELSE Freeze(r.obj),
           iota |-> io, issued |-> iss]

(***************************************************************************)
(* Enum: reads and queries.  c is the number of invocations made so far of *)
(* the function mapped to a computed member, a counter-incrementing        *)
(* function "() => ++count".                                               *)
(***************************************************************************)
\* the mapped function called by a getter
Invoke(f, c) == [ret |-> Num(c + 1), calls |-> c + 1]

\* this[key]
Get(obj, key, c) ==
  LET i == PropIndex(obj.props, key)
  IN IF i = 0 THEN [ret |-> Undefined, calls |-> c]
     ELSE IF obj.props[i].kind = "accessor" THEN Invoke(obj.props[i].value, c)
     ELSE [ret |-> obj.props[i].value, calls |-> c]

keys(obj) == ObjectKeys(obj)

\* this.keys().map(key => this[key])
RECURSIVE ReadAll(_, _, _)
ReadAll(obj, ks, c) ==
  IF ks = <<>> THEN [ret |-> <<>>, calls |-> c]
  ELSE LET g == Get(obj, ks[1], c)
           rest == ReadAll(obj, Tail(ks), g.calls)
       IN [ret |-> <<g.ret>> \o rest.ret, calls |-> rest.calls]

\* s.indexOf(v), counted from 1, 0 when absent
IndexOf(s, v) ==
  IF \E i \in 1..Len(s) : StrictEq(s[i], v)
  THEN CHOOSE i \in 1..Len(s) : StrictEq(s[i], v) /\ \A j \in 1..(i - 1) : ~StrictEq(s[j], v)
  ELSE 0

\* s.includes(v)
Includes(s, v) == \E i \in 1..Len(s) : SameValueZero(s[i], v)

\* the list returned without the filter
FilterNothing(s, n) == SubSeq(s, 1, n)

\* s.filter((v, i, s) => s.indexOf(v) === i)
RECURSIVE FilterFirst(_, _)
FilterFirst(s, n) ==
  IF n = 0 THEN <<>>
  ELSE FilterFirst(s, n - 1) \o (IF IndexOf(s, s[n]) = n THEN <<s[n]>> ELSE <<>>)

values(obj, c) ==
  LET r == ReadAll(obj, keys(obj), c)
  IN [ret |-> FilterFirst(r.ret, Len(r.ret)), calls |-> r.calls]

hasKey(obj, name) ==
  LET ks == keys(obj)
  IN Includes([i \in 1..Len(ks) |-> Str(ks[i])], name)

hasValue(obj, value, c) ==
  LET r == values(obj, c)
  IN [ret |-> Includes(r.ret, value), calls |-> r.calls]

\* the lookup returning the last matching key
findForValueLast(obj, value, c) ==
  LET r == ReadAll(obj, keys(obj), c)
      hits == {i \in 1..Len(r.ret) : StrictEq(r.ret[i], value)}
  IN [ret |-> IF hits = {} THEN Undefined
              ELSE Str(keys(obj)[CHOOSE i \in hits : \A j \in hits : j <= i]),
      calls |-> r.calls]

findForValue(obj, value, c) ==
  LET r == ReadAll(obj, keys(obj), c)
      index == IndexOf(r.ret, value)
  IN [ret |-> IF index = 0 THEN Undefined ELSE Str(keys(obj)[index]), calls |-> r.calls]

toString(obj, c) ==
  LET ks == keys(obj)
      r == ReadAll(obj, ks, c)
  IN [ret |-> Join([i \in 1..Len(ks) |-> ks[i] \o <<"=">> \o ToStr(r.ret[i])], <<",", " ">>),
      calls |-> r.calls]

(***************************************************************************)
(* InvalidCommandError.                                                    *)
(***************************************************************************)
\* the helper without its padding
d2hNoPadding(d) == NumberToString(d, 16)

d2h(d) ==
  LET h == NumberToString(d, 16)
  IN IF Len(h) = 1 THEN <<"0">> \o h ELSE h

WithTheValue == <<"w", "i", "t", "h", " ", "t", "h", "e", " ", "v", "a", "l", "u", "e", " ">>
Called == <<"c", "a", "l", "l", "e", "d", " ">>
CantFind == <<"C", "a", "n", "'", "t", " ", "f", "i", "n", "d", " ">>
Quote == <<"\"">>

\* the message with the context appended even when it is empty
InvalidCommandErrorAlwaysContext(value, type, target, context) ==
  LET ctx == IF context.given THEN context.items ELSE <<>>
      m1 == IF TypeOf(target) = "number"
            THEN WithTheValue \o d2h(target)
            ELSE Called \o Quote \o ToStr(target) \o Quote
  IN CantFind \o ToStr(type) \o <<" ">> \o m1 \o <<" ", "(">> \o Join(ctx, <<",", " ">>) \o <<")">>

\* the message built by new InvalidCommandError(value, type, target, context);
\* context is [given |-> FALSE, ...] when the argument is omitted
InvalidCommandError(value, type, target, context) ==
  LET ctx == IF context.given THEN context.items ELSE <<>>
      m1 == IF TypeOf(target) = "number"
            THEN WithTheValue \o d2h(target)
            ELSE Called \o Quote \o ToStr(target) \o Quote
      m2 == CantFind \o ToStr(type) \o <<" ">> \o m1
  IN IF Len(ctx) > 0
     THEN m2 \o <<" ", "(">> \o Join(ctx, <<",", " ">>) \o <<")">>
     ELSE m2

(***************************************************************************)
(* Inputs of the operations.                                               *)
(***************************************************************************)
SeqsUpTo(S, n) == UNION {[1..k -> S] : k \in 0..n}

\* strings given in an array, used as keys (iota mode) or rows (auto mode)
ArrayItems == {<<"a", " ", "b">>, <<"a", "_", "b">>, <<"2">>, <<"1", "0">>}

ArrayInputs == {[isArray |-> TRUE, items |-> s] : s \in SeqsUpTo(ArrayItems, MaxLen)}

MapKeys == {<<"A">>, <<"2">>}
MapVals == {Num(1), NaN, Fn(1)}

\* an object given as a mapping: its entries in the order they were written,
\* no key twice
HasDistinctKeys(es) == \A i, j \in 1..Len(es) : i # j => es[i].key # es[j].key

MappingInputs ==
  {[isArray |-> FALSE, items |-> es] :
     es \in {s \in SeqsUpTo([key : MapKeys, value : MapVals], MaxLen) : HasDistinctKeys(s)}}

\* keys of the Enums that share the counter
IotaKeys == {<<"a", " ", "b">>, <<"2">>, <<"1", "0">>}

IotaInputs == {[isArray |-> TRUE, items |-> s] : s \in SeqsUpTo(IotaKeys, MaxLen)}

\* mappings given together with the auto flag
RejectedInputs == {m \in MappingInputs : Len(m.items) <= 1}

QueryKeys == {<<"2">>, <<"A">>, <<"Z">>}
QueryVals == {Num(0), Num(1), NaN, Str(<<"2">>), Str(<<"a", " ", "b">>)}

ErrValues == {Str(<<"Z">>), Undefined}
ErrTypes == {Str(<<"c", "o", "m", "m", "a", "n", "d">>), Str(<<"c", "l", "a", "s", "s">>)}
ErrTargets == {Num(n) : n \in -1..MaxTarget} \cup {NaN, Undefined, Str(<<"F", "o", "o">>)}
Bar == <<"b", "a", "r">>
Baz == <<"b", "a", "z">>
ErrContexts ==
  {[given |-> FALSE, items |-> <<>>], [given |-> TRUE, items |-> <<>>],
   [given |-> TRUE, items |-> <<Bar>>], [given |-> TRUE, items |-> <<Bar, Baz>>]}

\* the targets at the edges of the renderings
EdgeTargets ==
  {Num(-1), Num(0), Num(15), Num(16), Num(255), Num(MaxTarget), NaN, Undefined,
   Str(<<"F", "o", "o">>)}

\* the arguments of the constructor: every target with one choice of the
\* other arguments, and the targets at the edges with every choice
ErrInputs ==
  [value : {Undefined}, type : {Str(<<"c", "l", "a", "s", "s">>)}, target : ErrTargets,
   context : {[given |-> FALSE, items |-> <<>>]}]
    \cup [value : ErrValues, type : ErrTypes, target : EdgeTargets, context : ErrContexts]

(***************************************************************************)
(* State.  __iota is the static Enum.__iota; issued lists the numbers      *)
(* returned by Enum._iota so far; heap holds the Enum instances the        *)
(* program references, each with the arguments it was constructed from;    *)
(* calls is the counter of the mapped function; last records the latest    *)
(* operation, its arguments and its outcome.                               *)
(***************************************************************************)
NoEnums == [isArray |-> FALSE, items |-> <<>>]
NoContext == [given |-> FALSE, items |-> <<>>]

Blank ==
  [op |-> "none", self |-> 0, key |-> <<>>, arg |-> Undefined, ret |-> <<>>, ok |-> TRUE,
   error |-> "", enums |-> NoEnums, auto |-> FALSE, obj |-> EmptyObject,
   ctx |-> NoContext, val |-> Undefined]

Init ==
  /\ __iota = Undefined
  /\ issued = <<>>
  /\ heap = <<>>
  /\ calls = 0
  /\ last = Blank

\* e = new Enum(enums, auto); first: no instance has been built before
NewEnum(enums, auto, first) ==
  LET r == Constructor(enums, auto, __iota, issued)
      inst == [props |-> r.obj.props, extensible |-> r.obj.extensible,
               enums |-> enums, auto |-> auto]
  IN /\ IF first THEN heap = <<>> ELSE Len(heap) < MaxEnums
     /\ Len(r.issued) <= MaxIota
     /\ __iota' = r.iota
     /\ issued' = r.issued
     /\ heap' = IF r.threw THEN heap ELSE Append(heap, inst)
     /\ last' = [Blank EXCEPT !.op = "new", !.ok = ~r.threw,
                              !.self = IF r.threw THEN 0 ELSE Len(heap) + 1,
                              !.error = IF r.threw THEN "TypeError" ELSE "",
                              !.enums = enums, !.auto = auto, !.obj = r.obj]
     /\ UNCHANGED calls

\* a query on heap[i] that returns r.ret and leaves the counter at r.calls
Query(i, op, key, arg, r) ==
  /\ r.calls <= MaxCalls
  /\ calls' = r.calls
  /\ last' = [Blank EXCEPT !.op = op, !.self = i, !.key = key, !.arg = arg, !.ret = r.ret]
  /\ UNCHANGED <<__iota, issued, heap>>

\* e[key]
Read(i, key) ==
  LET g == Get(heap[i], key, calls)
  IN Query(i, "get", key, Undefined, [ret |-> <<g.ret>>, calls |-> g.calls])

\* e.keys()
Keys(i) ==
  LET ks == keys(heap[i])
  IN Query(i, "keys", <<>>, Undefined, [ret |-> [j \in 1..Len(ks) |-> Str(ks[j])], calls |-> calls])

\* e.values()
Values(i) == Query(i, "values", <<>>, Undefined, values(heap[i], calls))

\* e.hasKey(name)
HasKey(i, name) ==
  Query(i, "hasKey", <<>>, Str(name), [ret |-> <<Bool(hasKey(heap[i], Str(name)))>>, calls |-> calls])

\* e.hasValue(value)
HasValue(i, value) ==
  LET r == hasValue(heap[i], value, calls)
  IN Query(i, "hasValue", <<>>, value, [ret |-> <<Bool(r.ret)>>, calls |-> r.calls])

\* e.findForValue(value)
FindForValue(i, value) ==
  LET r == findForValue(heap[i], value, calls)
  IN Query(i, "findForValue", <<>>, value, [ret |-> <<r.ret>>, calls |-> r.calls])

\* e.toString()
ToString(i) ==
  LET r == toString(heap[i], calls)
  IN Query(i, "toString", <<>>, Undefined, [ret |-> <<Str(r.ret)>>, calls |-> r.calls])

\* an attempt of client code to change heap[i], with outcome r; a rejected
\* attempt throws a TypeError when throws holds and is ignored otherwise
Attempt(i, op, key, arg, r, throws) ==
  /\ heap' = [heap EXCEPT ![i] = [@ EXCEPT !.props = r.obj.props, !.extensible = r.obj.extensible]]
  /\ last' = [Blank EXCEPT !.op = op, !.self = i, !.key = key, !.arg = arg, !.ok = r.ok,
                           !.error = IF ~r.ok /\ throws THEN "TypeError" ELSE ""]
  /\ UNCHANGED <<__iota, issued, calls>>

ObjOf(inst) == [props |-> inst.props, extensible |-> inst.extensible]

\* e[key] = v, in strict or in sloppy code
Assign(i, key, v, strict) ==
  Attempt(i, "set", key, v, SetProperty(ObjOf(heap[i]), key, v), strict)

\* delete e[key], in strict or in sloppy code
Delete(i, key, strict) ==
  Attempt(i, "delete", key, Undefined, DeleteProperty(ObjOf(heap[i]), key), strict)

\* Object.defineProperty(e, key, { enumerable: true, value: v })
Redefine(i, key, v) ==
  LET d == DefineProperty(ObjOf(heap[i]), key, DataDesc(v))
  IN Attempt(i, "define", key, v, [ok |-> ~d.threw, obj |-> d.obj], TRUE)

\* new InvalidCommandError(value, type, target, context)
NewInvalidCommandError(value, type, target, context) ==
  /\ last' = [Blank EXCEPT !.op = "error", !.val = value, !.key = type.s, !.arg = target,
                           !.ctx = context,
                           !.ret = <<Str(InvalidCommandError(value, type, target, context))>>]
  /\ UNCHANGED <<__iota, issued, heap, calls>>

(***************************************************************************)
(* Specifications.                                                         *)
(***************************************************************************)
\* a program that builds one Enum, possibly after rejected constructions,
\* then reads it, queries it and attempts to change it
Next ==
  \/ \E enums \in ArrayInputs, auto \in BOOLEAN : NewEnum(enums, auto, TRUE)
  \/ \E enums \in MappingInputs, auto \in BOOLEAN : NewEnum(enums, auto, TRUE)
  \/ \E i \in DOMAIN heap, key \in QueryKeys : Read(i, key)
  \/ \E i \in DOMAIN heap : Keys(i)
  \/ \E i \in DOMAIN heap : Values(i)
  \/ \E i \in DOMAIN heap, name \in QueryKeys : HasKey(i, name)
  \/ \E i \in DOMAIN heap, value \in QueryVals : HasValue(i, value)
  \/ \E i \in DOMAIN heap, value \in QueryVals : FindForValue(i, value)
  \/ \E i \in DOMAIN heap : ToString(i)
  \/ \E i \in DOMAIN heap, key \in QueryKeys, strict \in BOOLEAN : Assign(i, key, Num(1), strict)
  \/ \E i \in DOMAIN heap, key \in QueryKeys, strict \in BOOLEAN : Delete(i, key, strict)
  \/ \E i \in DOMAIN heap, key \in QueryKeys, v \in {Num(0), Num(1)} : Redefine(i, key, v)

Spec == Init /\ [][Next]_vars

\* a program that builds several iota-mode Enums, which share the counter,
\* and attempts constructions that are rejected
NextIota ==
  \/ \E enums \in IotaInputs : NewEnum(enums, FALSE, FALSE)
  \/ \E enums \in RejectedInputs : NewEnum(enums, TRUE, FALSE)

SpecIota == Init /\ [][NextIota]_vars

\* the messages of InvalidCommandError
NextError ==
  \E in \in ErrInputs : NewInvalidCommandError(in.value, in.type, in.target, in.context)

SpecError == Init /\ [][NextError]_vars

(***************************************************************************)
(* Properties.                                                             *)
(***************************************************************************)
HasDuplicate(s) == \E i, j \in 1..Len(s) : i < j /\ s[i] = s[j]

\* position of the first element of s that repeats an earlier one
FirstRepeat(s) ==
  CHOOSE j \in 1..Len(s) :
    /\ \E i \in 1..(j - 1) : s[i] = s[j]
    /\ \A k \in 1..(j - 1) : \A i \in 1..(k - 1) : s[i] # s[k]

\* the identifiers of the rows of an auto-mode input
AutoKeys(rows) == [k \in 1..Len(rows) |-> constantCase(rows[k])]

\* the keys of an array input in the order they are given
GivenKeys(enums, auto) == IF auto THEN AutoKeys(enums.items) ELSE enums.items

IsIotaMode(inst) == inst.enums.isArray /\ ~inst.auto
IsAutoMode(inst) == inst.enums.isArray /\ inst.auto

\* the stored value of the property named key
StoredValue(obj, key) == obj.props[PropIndex(obj.props, key)].value

\* the values of an iota-mode Enum, in the order its keys were given
IotaValues(inst) ==
  [k \in 1..Len(inst.enums.items) |-> StoredValue(inst, inst.enums.items[k])]

\* C1: every iota-mode Enum holds strictly increasing non-negative integers in
\* declaration order; the counter issues 0 first and never issues a number
\* twice, never decreases and is never reset; the values of two iota-mode
\* Enums are disjoint.
C1_IotaCounter ==
  /\ \A i \in DOMAIN heap : IsIotaMode(heap[i]) =>
       LET v == IotaValues(heap[i])
       IN \A k \in DOMAIN v :
            /\ v[k].t = "number" /\ v[k].n >= 0
            /\ k > 1 => v[k - 1].n < v[k].n
            /\ \E a \in DOMAIN issued : issued[a] = v[k].n
  /\ \A a, b \in DOMAIN issued : a < b => issued[a] < issued[b]
  /\ issued # <<>> => issued[1] = 0 /\ __iota.t = "number" /\ __iota.n > issued[Len(issued)]
  /\ \A i, j \in DOMAIN heap : i # j /\ IsIotaMode(heap[i]) /\ IsIotaMode(heap[j]) =>
       \A k \in DOMAIN IotaValues(heap[i]), m \in DOMAIN IotaValues(heap[j]) :
         IotaValues(heap[i])[k] # IotaValues(heap[j])[m]

\* two iota-mode Enums with members have been built one after the other
C1_Witness ==
  /\ Len(heap) >= 2
  /\ IsIotaMode(heap[1]) /\ Len(heap[1].props) >= 2
  /\ IsIotaMode(heap[2]) /\ Len(heap[2].props) >= 1

\* C5: new Enum(mapping, true) fails with a TypeError before any property is
\* defined, and leaves the iota counter as it was.
C5_MappingWithAutoRejected ==
  [][(last'.op = "new" /\ last'.auto /\ ~last'.enums.isArray) =>
       /\ ~last'.ok /\ last'.error = "TypeError"
       /\ last'.obj = EmptyObject
       /\ __iota' = __iota /\ issued' = issued /\ heap' = heap]_vars

\* a non-empty mapping was rejected after the counter had been used
C5_Witness ==
  /\ last.op = "new" /\ last.auto /\ ~last.enums.isArray /\ last.enums.items # <<>>
  /\ ~last.ok
  /\ ~Falsy(__iota)

\* C10 as stated: an array input with a duplicate key is constructed without
\* raising; in iota mode every occurrence draws a fresh value, in auto mode
\* the key holds the value of the later occurrence.
C10_Original ==
  LET ks == GivenKeys(last.enums, last.auto)
  IN (last.op = "new" /\ last.enums.isArray /\ HasDuplicate(ks)) =>
       /\ last.ok
       /\ last.auto => \A k \in DOMAIN ks :
            StoredValue(last.obj, ks[k]) =
              Str(last.enums.items[CHOOSE j \in DOMAIN ks : ks[j] = ks[k] /\ \A m \in DOMAIN ks : ks[m] = ks[k] => m <= j])

\* C10, amended: a duplicate key never overwrites.  In iota mode the second
\* occurrence of a key raises a TypeError after it has drawn its own fresh
\* number; in auto mode two different strings with the same identifier raise
\* a TypeError, and a repeated identical string is defined once.
C10_DuplicateKeyRaises ==
  [][LET ks == GivenKeys(last'.enums, last'.auto)
         rows == last'.enums.items
     IN (last'.op = "new" /\ last'.enums.isArray /\ HasDuplicate(ks)) =>
          IF ~last'.auto
          THEN /\ ~last'.ok /\ last'.error = "TypeError"
               /\ heap' = heap
               /\ Len(issued') = Len(issued) + FirstRepeat(ks)
               /\ Len(last'.obj.props) = FirstRepeat(ks) - 1
          ELSE IF \E i, j \in DOMAIN ks : ks[i] = ks[j] /\ rows[i] # rows[j]
          THEN /\ ~last'.ok /\ last'.error = "TypeError"
               /\ heap' = heap
               /\ issued' = issued
          ELSE /\ last'.ok
               /\ \A k \in DOMAIN ks : StoredValue(last'.obj, ks[k]) = Str(rows[k])
               /\ Len(last'.obj.props) = Cardinality({ks[k] : k \in DOMAIN ks})]_vars

\* an iota-mode array with a repeated key was rejected after drawing numbers
C10_Witness ==
  /\ last.op = "new" /\ last.enums.isArray /\ ~last.auto
  /\ HasDuplicate(last.enums.items)
  /\ ~last.ok
  /\ Len(issued) >= 2

\* C2 as stated: values() of an auto-mode Enum equals the input strings in
\* the input order.
C2_Original ==
  (last.op = "values" /\ IsAutoMode(heap[last.self])) =>
    last.ret = [k \in 1..Len(heap[last.self].enums.items) |-> Str(heap[last.self].enums.items[k])]

\* the rows whose identifier is an array index, by ascending index
RECURSIVE IndexRowsAscending(_)
IndexRowsAscending(rows) ==
  IF rows = {} THEN <<>>
  ELSE LET m == CHOOSE r \in rows :
                  \A o \in rows : RadixToNat(constantCase(r), 10) <= RadixToNat(constantCase(o), 10)
       IN <<Str(m)>> \o IndexRowsAscending(rows \ {m})

\* the rows in the order of keys(): rows with an array-index identifier
\* first, ascending, then the others in the order given
RowsInKeyOrder(rows) ==
  LET isIndexRow(r) == IsArrayIndex(constantCase(r))
      isNameRow(r) == ~isIndexRow(r)
      names == SelectSeq(rows, isNameRow)
  IN IndexRowsAscending({rows[k] : k \in {j \in DOMAIN rows : isIndexRow(rows[j])}})
       \o [k \in 1..Len(names) |-> Str(names[k])]

\* C2, amended: for auto-mode inputs whose identifiers are pairwise distinct
\* the construction succeeds and values() holds the unnormalized input
\* strings in the order of keys().
C2_AutoValuesAreRows ==
  /\ (last.op = "new" /\ last.enums.isArray /\ last.auto
        /\ ~HasDuplicate(AutoKeys(last.enums.items))) => last.ok
  /\ (last.op = "values" /\ IsAutoMode(heap[last.self])
        /\ ~HasDuplicate(AutoKeys(heap[last.self].enums.items))) =>
       last.ret = RowsInKeyOrder(heap[last.self].enums.items)

\* values() was called on an auto-mode Enum of two rows, one of them a row
\* that differs from its identifier
C2_Witness ==
  /\ last.op = "values" /\ IsAutoMode(heap[last.self])
  /\ Len(heap[last.self].enums.items) = 2
  /\ heap[last.self].enums.items[1] = <<"a", " ", "b">>
  /\ Len(last.ret) = 2

\* the keys of an Enum in the order its input declares them
DeclaredKeys(inst) ==
  IF inst.enums.isArray THEN GivenKeys(inst.enums, inst.auto)
  ELSE [k \in 1..Len(inst.enums.items) |-> inst.enums.items[k].key]

IsComputed(inst, key) == inst.props[PropIndex(inst.props, key)].kind = "accessor"

NumComputed(inst) == Cardinality({j \in DOMAIN inst.props : inst.props[j].kind = "accessor"})

\* s with every element that equals an earlier one removed
RECURSIVE CollapseToFirst(_)
CollapseToFirst(s) ==
  IF s = <<>> THEN <<>>
  ELSE LET front == SubSeq(s, 1, Len(s) - 1)
           x == s[Len(s)]
       IN IF \E j \in DOMAIN front : front[j] = x
          THEN CollapseToFirst(front)
          ELSE Append(CollapseToFirst(front), x)

\* the declared keys in the order of keys(): array-index keys first,
\* ascending, then the others in the order declared
DeclaredInKeyOrder(inst) ==
  LET D == CollapseToFirst(DeclaredKeys(inst))
      isName(k) == ~IsArrayIndex(k)
  IN SortIndexKeys({D[k] : k \in {j \in DOMAIN D : IsArrayIndex(D[j])}}) \o SelectSeq(D, isName)

\* the value that key had when the query that has just returned read the
\* keys in turn: a computed member is invoked once per read, in the order of
\* keys(), so the j-th computed key got the j-th new count
Resolved(inst, key) ==
  LET order == DeclaredInKeyOrder(inst)
      pos == CHOOSE k \in DOMAIN order : order[k] = key
  IN IF IsComputed(inst, key)
     THEN Num(calls - NumComputed(inst) + Cardinality({j \in 1..pos : IsComputed(inst, order[j])}))
     ELSE StoredValue(inst, key)

\* the value given for key in a mapping input
MappedValue(enums, key) ==
  enums.items[CHOOSE k \in DOMAIN enums.items : enums.items[k].key = key].value

IsMappedKey(enums, key) == \E k \in DOMAIN enums.items : enums.items[k].key = key

NumMappedFunctions(enums) ==
  Cardinality({k \in DOMAIN enums.items : TypeOf(enums.items[k].value) = "function"})

\* C3: in an Enum built from a mapping, reading a key mapped to a non-function
\* value yields that value and invokes nothing; reading a key mapped to a
\* function invokes it anew, so two successive reads of a counter-incrementing
\* function differ; values(), hasValue(), findForValue() and toString() invoke
\* the function of every computed key once per call.
C3_ComputedMembersReinvoked ==
  [][LET i == last'.self
     IN (i > 0 /\ last'.op \in {"get", "values", "hasValue", "findForValue", "toString"}
           /\ ~heap[i].enums.isArray) =>
          IF last'.op = "get"
          THEN IsMappedKey(heap[i].enums, last'.key) =>
                 IF TypeOf(MappedValue(heap[i].enums, last'.key)) = "function"
                 THEN /\ calls' = calls + 1
                      /\ last'.ret = <<Num(calls')>>
                      /\ (last.op = "get" /\ last.self = i /\ last.key = last'.key)
                           => last'.ret # last.ret
                 ELSE /\ last'.ret = <<MappedValue(heap[i].enums, last'.key)>>
                      /\ calls' = calls
          ELSE calls' = calls + NumMappedFunctions(heap[i].enums)]_vars

\* a computed member has been read after the function had already been invoked
C3_Witness ==
  /\ last.op = "get" /\ last.self > 0
  /\ ~heap[last.self].enums.isArray
  /\ IsMappedKey(heap[last.self].enums, last.key)
  /\ TypeOf(MappedValue(heap[last.self].enums, last.key)) = "function"
  /\ calls >= 2

\* C4: once constructed an Enum is frozen: an attempt to add, delete, assign
\* or redefine a key fails or has no effect, and leaves its keys and
\* the definition of every key as they were.
C4_Frozen ==
  [][(last'.op \in {"set", "delete", "define"}) =>
       /\ heap' = heap
       /\ keys(ObjOf(heap'[last'.self])) = keys(ObjOf(heap[last'.self]))
       /\ (last'.op \in {"set", "define"} /\ PropIndex(heap[last'.self].props, last'.key) = 0)
            => ~last'.ok
       /\ last'.op = "set" => ~last'.ok]_vars

\* an attempt to add a key to a constructed Enum has failed
C4_Witness ==
  /\ last.op = "set" /\ last.key = <<"Z">> /\ ~last.ok
  /\ Len(heap[last.self].props) >= 1

\* the first key of ks whose value at the time of the query strictly equals v
FirstMatch(inst, ks, v) ==
  LET hits == {k \in DOMAIN ks : StrictEq(Resolved(inst, ks[k]), v)}
  IN IF hits = {} THEN Undefined ELSE Str(ks[CHOOSE k \in hits : \A j \in hits : k <= j])

\* for an Enum of fixed members hasValue(v) holds exactly when findForValue(v)
\* is not undefined, and then the value at the returned key is v
HasValueAgreesWithFind ==
  (last.op = "hasValue" /\ NumComputed(heap[last.self]) = 0) =>
    LET inst == heap[last.self]
        f == findForValue(ObjOf(inst), last.arg, calls).ret
    IN /\ last.ret = <<Bool(f # Undefined)>>
       /\ f # Undefined => StoredValue(inst, f.s) = last.arg

\* C6 as stated: findForValue(value) returns the first key in declaration
\* order whose current value strictly equals value, undefined when there is
\* none; for an Enum of fixed members hasValue(v) holds exactly when
\* findForValue(v) is not undefined, and then the value at that key is v.
C6_Original ==
  /\ last.op = "findForValue" =>
       last.ret = <<FirstMatch(heap[last.self], CollapseToFirst(DeclaredKeys(heap[last.self])),
                               last.arg)>>
  /\ HasValueAgreesWithFind

\* C6, amended: findForValue(value) returns the first key in the order of
\* keys() - declaration order, except that array-index keys come first,
\* ascending - whose current value strictly equals value, undefined when
\* there is none; the agreement with hasValue is as stated.
C6_FindForValue ==
  /\ last.op = "findForValue" =>
       last.ret = <<FirstMatch(heap[last.self], DeclaredInKeyOrder(heap[last.self]), last.arg)>>
  /\ HasValueAgreesWithFind

\* findForValue has found a key although a later key holds the same value
C6_Witness ==
  /\ last.op = "findForValue" /\ last.ret # <<Undefined>>
  /\ \E j, k \in DOMAIN heap[last.self].props :
       /\ j # k
       /\ heap[last.self].props[j].value = last.arg
       /\ heap[last.self].props[k].value = last.arg

PairwiseDistinct(s) == \A j, k \in DOMAIN s : j # k => s[j] # s[k]

\* C7 as stated: values() returns the values of the keys in declaration
\* order with duplicates collapsed to the first occurrence, so that
\* keys().length >= values().length with equality iff the values are
\* pairwise distinct.
C7_Original ==
  last.op = "values" =>
    LET inst == heap[last.self]
        D == CollapseToFirst(DeclaredKeys(inst))
        vals == [k \in DOMAIN D |-> Resolved(inst, D[k])]
    IN /\ last.ret = CollapseToFirst(vals)
       /\ Len(keys(ObjOf(inst))) >= Len(last.ret)
       /\ Len(keys(ObjOf(inst))) = Len(last.ret) <=> PairwiseDistinct(vals)

IsNotNaN(v) == v.t # "NaN"

\* C7, amended: values() returns the values of the keys in the order of
\* keys() - declaration order, except that array-index keys come first,
\* ascending - with duplicates collapsed to the first occurrence and NaN
\* left out, so that keys().length >= values().length with equality iff
\* the values are pairwise distinct and none is NaN.
C7_ValuesDistinctInKeyOrder ==
  /\ last.op = "keys" =>
       last.ret = [k \in DOMAIN DeclaredInKeyOrder(heap[last.self]) |->
                     Str(DeclaredInKeyOrder(heap[last.self])[k])]
  /\ last.op = "values" =>
       LET inst == heap[last.self]
           ks == DeclaredInKeyOrder(inst)
           vals == [k \in DOMAIN ks |-> Resolved(inst, ks[k])]
       IN /\ last.ret = CollapseToFirst(SelectSeq(vals, IsNotNaN))
          /\ Len(keys(ObjOf(inst))) >= Len(last.ret)
          /\ Len(keys(ObjOf(inst))) = Len(last.ret)
               <=> (PairwiseDistinct(vals) /\ \A k \in DOMAIN vals : IsNotNaN(vals[k]))

\* values() has collapsed a duplicate
C7_Witness ==
  /\ last.op = "values"
  /\ Len(last.ret) >= 1
  /\ Len(last.ret) < Len(keys(ObjOf(heap[last.self])))

(***************************************************************************)
(* Properties of InvalidCommandError.                                      *)
(***************************************************************************)
StartsWith(s, p) == Len(s) >= Len(p) /\ SubSeq(s, 1, Len(p)) = p

EndsWith(s, p) == Len(s) >= Len(p) /\ SubSeq(s, Len(s) - Len(p) + 1, Len(s)) = p

\* the context as the message shows it
ContextSuffix(context) ==
  IF context.given /\ context.items # <<>>
  THEN <<" ", "(">> \o Join(context.items, <<",", " ">>) \o <<")">>
  ELSE <<>>

\* the message without "Can't find <type> " and without the context
TargetPart(l) ==
  SubSeq(l.ret[1].s, Len(CantFind) + Len(l.key) + 2, Len(l.ret[1].s) - Len(ContextSuffix(l.ctx)))

\* the rendering of the target after "with the value "
HexPart(l) == SubSeq(TargetPart(l), Len(WithTheValue) + 1, Len(TargetPart(l)))

IsLowerHex(s) == \A k \in DOMAIN s : \E d \in 1..16 : HexDigits[d] = s[k]

\* C8: the message is "Can't find <type> with the value <hex>" for a numeric
\* target and "Can't find <type> called "<target>"" otherwise, followed by
\* " (" + context.join(", ") + ")" iff the context is not empty, an omitted
\* context counting as empty; the value argument does not appear in it.
C8_MessageFormat ==
  last.op = "error" =>
    LET m == last.ret[1].s
    IN /\ StartsWith(m, CantFind \o last.key \o <<" ">>)
       /\ EndsWith(m, ContextSuffix(last.ctx))
       /\ (~last.ctx.given \/ last.ctx.items = <<>>) => m[Len(m)] # ")"
       /\ IF TypeOf(last.arg) = "number"
          THEN TargetPart(last) = WithTheValue \o d2h(last.arg)
          ELSE TargetPart(last) = Called \o Quote \o ToStr(last.arg) \o Quote
       /\ last.val = Str(<<"Z">>) => \A k \in DOMAIN m : m[k] # "Z"

\* a message for a numeric target with a context of two items
C8_Witness ==
  /\ last.op = "error" /\ TypeOf(last.arg) = "number"
  /\ last.ctx.given /\ Len(last.ctx.items) = 2
  /\ last.val = Str(<<"Z">>)

\* C9 as stated: every non-negative integer target is rendered as exactly two
\* lowercase hexadecimal digits whose value is the target, every other target
\* in double quotes after "called".
C9_Original ==
  last.op = "error" =>
    IF last.arg.t = "number" /\ last.arg.n >= 0
    THEN /\ StartsWith(TargetPart(last), WithTheValue)
         /\ Len(HexPart(last)) = 2
         /\ IsLowerHex(HexPart(last))
         /\ RadixToNat(HexPart(last), 16) = last.arg.n
    ELSE TargetPart(last) = Called \o Quote \o ToStr(last.arg) \o Quote

\* C9, amended: an integer target from 0 to 255 is rendered as exactly two
\* lowercase hexadecimal digits whose value is the target, a larger integer
\* as its hexadecimal numeral of more than two digits; every target of type
\* number is rendered after "with the value" and never quoted; every target
\* of another type is rendered in double quotes after "called".
C9_ByteAsTwoHexDigits ==
  last.op = "error" =>
    /\ (last.arg.t = "number" /\ last.arg.n >= 0) =>
         /\ IsLowerHex(HexPart(last))
         /\ RadixToNat(HexPart(last), 16) = last.arg.n
         /\ IF last.arg.n <= 255 THEN Len(HexPart(last)) = 2 ELSE Len(HexPart(last)) > 2
    /\ IF TypeOf(last.arg) = "number"
       THEN StartsWith(TargetPart(last), WithTheValue)
       ELSE TargetPart(last) = Called \o Quote \o ToStr(last.arg) \o Quote

\* the target 15 has been rendered as "0f"
C9_Witness ==
  /\ last.op = "error" /\ last.arg = Num(15)
  /\ HexPart(last) = <<"0", "f">>

====
